---- MODULE Spec2Model ----
(***************************************************************************)
(* A model of the Gemini RAG plugin: the chunker (EmbeddingUtils.chunkText),*)
(* the embedding cache and its rebuild (rebuildEmbeddings,                  *)
(* processFileForEmbeddings), similarity search (searchSimilarChunks,       *)
(* cosineSimilarity) and the query path (queryWithRAG).                     *)
(*                                                                         *)
(* Strings are sequences of one-character strings.  The JavaScript runtime  *)
(* is single threaded: a handler runs until its next await, so every action *)
(* below is the code between two awaits of one handler.                     *)
(***************************************************************************)
EXTENDS Integers, Sequences, FiniteSets, TLC

VARIABLES
    \* ---- the chunker, run on its own (ChunkSpec) ----
    ckText,      \* chunkText's argument text
    ckSize,      \* chunkText's argument chunkSize
    ckOverlap,   \* chunkText's argument overlap
    ckStart,     \* the local `start`
    ckChunks,    \* the local `chunks`
    ckPc,        \* "loop": at the while test; "done": returned
    ckSeen,      \* the window starts of the iterations run so far
    \* ---- the plugin (GeminiRAGPlugin) ----
    settings,        \* this.settings
    genAI,           \* this.genAI is non-null
    embeddingCache,  \* this.embeddingCache: a Map, as its entries in insertion order
    data,            \* the plugin's persisted data (loadData / saveData)
    vault,           \* the host's vault: what vault.read gives for each file
    genPlan,         \* the provider: what the generation calls of a query are answered
    rb,              \* the running rebuildEmbeddings call, if any
    q,               \* the running queryWithRAG call, if any
    \* ---- what the claims observe ----
    lastChunkCall,   \* the latest chunkText call of the rebuild: its (chunkSize, overlap),
                     \* and which of the getEmbedding calls after it gave a vector
    rbBefore,        \* the cache when the running rebuild started
    scanLog,         \* the cache a query scanned while the rebuild was running
    \* ---- the pure functions, run on their own (SearchSpec, CosineSpec) ----
    sr,              \* a call of EmbeddingUtils.searchSimilarChunks: arguments and result
    cos,             \* a call of cosineSimilarity on a pair of vectors, in both orders
    \* ---- the chat view (ChatView) ----
    chat,            \* chatHistory, isProcessing and the running sendMessage call
    \* ---- the plugin's life in the host (onload, onunload) ----
    life             \* where onload stands, and what the last session saved

chunkVars == <<ckText, ckSize, ckOverlap, ckStart, ckChunks, ckPc, ckSeen>>
envVars == <<vault, genPlan>>
pluginVars == <<settings, genAI, embeddingCache, data, envVars, rb, q, life>>
obsVars == <<lastChunkCall, rbBefore, scanLog>>
pureVars == <<sr, cos>>

vars == <<chunkVars, pluginVars, obsVars, pureVars, chat>>

-----------------------------------------------------------------------------
\* Bounds of the chunker's inputs.
MaxTextLen == 8
MaxChunkSize == 7

-----------------------------------------------------------------------------
\* ---- strings ----

NL == "\n"

Max(a, b) == IF a >= b THEN a ELSE b
Min(a, b) == IF a <= b THEN a ELSE b

\* String.prototype.slice's reading of one index: a negative index counts
\* from the end, and every index is clamped to 0..n.
JsIndex(i, n) == IF i < 0 THEN Max(n + i, 0) ELSE Min(i, n)

\* text.slice(a, b)
Slice(t, a, b) ==
    LET from == JsIndex(a, Len(t))
        to   == JsIndex(b, Len(t))
    IN  IF from < to THEN SubSeq(t, from + 1, to) ELSE <<>>

\* s.lastIndexOf(ch): the last 0-based index of ch in s, or -1
SetMax(S) == CHOOSE i \in S : \A j \in S : j <= i
SetMin(S) == CHOOSE i \in S : \A j \in S : i <= j

LastIndexOf(s, ch) ==
    LET hits == {i \in 1..Len(s) : s[i] = ch}
    IN  IF hits = {} THEN -1 ELSE SetMax(hits) - 1

IsSpace(ch) == ch \in {" ", NL}

\* A trim that leaves the string as it is.
NoTrim(s) == s

\* s.trim()
Trim(s) ==
    LET ink == {i \in 1..Len(s) : ~IsSpace(s[i])}
    IN  IF ink = {} THEN <<>> ELSE SubSeq(s, SetMin(ink), SetMax(ink))

\* arr.filter(chunk => chunk.length > 0)
RECURSIVE FilterNonEmpty(_)
FilterNonEmpty(cs) ==
    IF cs = <<>> THEN <<>>
    ELSE IF Len(Head(cs)) > 0 THEN <<Head(cs)>> \o FilterNonEmpty(Tail(cs))
         ELSE FilterNonEmpty(Tail(cs))

-----------------------------------------------------------------------------
\* ---- EmbeddingUtils.chunkText ----

\* breakPoint > start + chunkSize * 0.7, in exact arithmetic (the model's chunk
\* sizes are ones whose product with the double 0.7 is exact enough to agree).
PastSeventyPercent(breakPoint, start, chunkSize) ==
    10 * breakPoint > 10 * start + 7 * chunkSize

\* A fallback that takes no overlap back.
FallbackNextNoOverlap(end, overlap) == end

\* start = end - overlap
FallbackNext(end, overlap) == end - overlap

\* One iteration of the while loop at window start `start`: the chunk pushed
\* and the next value of `start`.
Window(text, chunkSize, overlap, start) ==
    LET end   == Min(start + chunkSize, Len(text))
        chunk == Slice(text, start, end)
    IN  IF end < Len(text)
        THEN LET lastPeriod  == LastIndexOf(chunk, ".")
                 lastNewline == LastIndexOf(chunk, NL)
                 breakPoint  == Max(lastPeriod, lastNewline)
             IN  IF PastSeventyPercent(breakPoint, start, chunkSize)
                 THEN [chunk |-> Trim(Slice(text, start, breakPoint + 1)),
                       next  |-> breakPoint + 1 - overlap]
                 ELSE [chunk |-> Trim(chunk), next |-> FallbackNext(end, overlap)]
        ELSE [chunk |-> Trim(chunk), next |-> end]

\* The positions (0-based) of text that text.slice(a, b) takes.
SliceRange(t, a, b) == {i \in JsIndex(a, Len(t))..(JsIndex(b, Len(t)) - 1) : TRUE}

\* The positions of text the chunk pushed by the iteration at `start` was
\* sliced from.
WindowRange(text, chunkSize, overlap, start) ==
    LET end   == Min(start + chunkSize, Len(text))
        chunk == Slice(text, start, end)
        breakPoint == Max(LastIndexOf(chunk, "."), LastIndexOf(chunk, NL))
    IN  IF end < Len(text) /\ PastSeventyPercent(breakPoint, start, chunkSize)
        THEN SliceRange(text, start, breakPoint + 1)
        ELSE SliceRange(text, start, end)

\* The loop as a whole.  The body is a function of `start` alone, so a window
\* start met twice is met forever: the call never returns (diverges).
RECURSIVE ChunkRun(_, _, _, _, _, _)
ChunkRun(text, chunkSize, overlap, start, chunks, seen) ==
    IF ~(start < Len(text))
    THEN [diverges |-> FALSE, chunks |-> FilterNonEmpty(chunks)]
    ELSE IF start \in seen
    THEN [diverges |-> TRUE, chunks |-> <<>>]
    ELSE LET w == Window(text, chunkSize, overlap, start)
         IN  ChunkRun(text, chunkSize, overlap, w.next,
                      Append(chunks, w.chunk), seen \cup {start})

ChunkText(text, chunkSize, overlap) ==
    ChunkRun(text, chunkSize, overlap, 0, <<>>, {})

-----------------------------------------------------------------------------
\* ---- settings (types.ts) and the settings tab's sliders ----

MinChunkLength == 50
ChunkSizeSliderMin == 200
ChunkSizeSliderMax == 2000
ChunkSizeSliderStep == 100
OverlapSliderMax == 500
OverlapSliderStep == 50

\* similarityThreshold is kept in hundredths (0.7 is 70).
DEFAULT_SETTINGS ==
    [apiKey |-> "",
     embeddingModel |-> "text-embedding-004",
     generativeModel |-> "gemini-1.5-flash-latest",
     maxResults |-> 5,
     similarityThreshold |-> 70,
     chunkSize |-> 1000,
     chunkOverlap |-> 200]

\* The positions of the two sliders: every multiple of the step within the limits.
ChunkSizeSlider ==
    {v \in ChunkSizeSliderMin..ChunkSizeSliderMax :
        (v - ChunkSizeSliderMin) % ChunkSizeSliderStep = 0}
OverlapSlider == {v \in 0..OverlapSliderMax : v % OverlapSliderStep = 0}

\* The slider positions the model moves the sliders to.
ChunkSizeChoices == {v \in ChunkSizeSlider : v \in {200, 1000}}
OverlapChoices == {v \in OverlapSlider : v \in {150, 200}}
ApiKeys == {"", "key"}

-----------------------------------------------------------------------------
\* ---- the vault (host) ----

\* vault.getMarkdownFiles(), in the host's order.  Both files are at the root
\* of the vault, so file.name is file.path.
Files == <<"a.md", "b.md">>
FileSet == {Files[i] : i \in 1..Len(Files)}
FileName(path) == path

Rep(ch, n) == [i \in 1..n |-> ch]

Unreadable == "unreadable"
TextIds == {"two", "dot"}

\* The contents a file can have (260 and 210 characters).
\*   two: words of 'b' and no sentence boundary.  Under (200, 150) it has three
\*        windows, the second of which trims to two characters.
\*   dot: 'a's with one '.' at index 149, past 70% of a 200-character window.
TextOf(id) ==
    CASE id = "two" -> Rep("b", 50) \o Rep(" ", 70) \o <<"b", "b">>
                          \o Rep(" ", 128) \o Rep("b", 10)
      [] id = "dot" -> Rep("a", 149) \o <<".">> \o Rep("a", 60)

-----------------------------------------------------------------------------
\* The subsequence of s at the indices in keep
RECURSIVE SelectSeq2(_, _, _)
SelectSeq2(s, keep, i) ==
    IF i > Len(s) THEN <<>>
    ELSE IF i \in keep THEN <<s[i]>> \o SelectSeq2(s, keep, i + 1)
         ELSE SelectSeq2(s, keep, i + 1)

\* No chunk is skipped for its length.
EligibleAll(chunks) == chunks

\* if (chunk.trim().length < 50) continue
Eligible(chunks) ==
    SelectSeq2(chunks, {i \in 1..Len(chunks) : Len(Trim(chunks[i])) >= MinChunkLength}, 1)

\* What processFileForEmbeddings gets from chunkText for a content under a
\* configuration, and the chunks it goes on to embed.
Chunking(id, chunkSize, overlap) ==
    LET run == ChunkText(TextOf(id), chunkSize, overlap)
    IN  [diverges |-> run.diverges, chunks |-> run.chunks, eligible |-> Eligible(run.chunks)]

\* Chunking on each content under each configuration of the sliders, computed
\* once.
ChunkConfigs ==
    (ChunkSizeChoices \cup {DEFAULT_SETTINGS.chunkSize})
        \X (OverlapChoices \cup {DEFAULT_SETTINGS.chunkOverlap})
ChunkedTable ==
    {<<id, c[1], c[2], Chunking(id, c[1], c[2])>> : id \in TextIds, c \in ChunkConfigs}
Chunked(id, chunkSize, overlap) ==
    (CHOOSE e \in ChunkedTable : e[1] = id /\ e[2] = chunkSize /\ e[3] = overlap)[4]

-----------------------------------------------------------------------------
\* ---- Map<string, EmbeddingData>, as its entries in insertion order ----

MapKeys(m) == {m[i].key : i \in 1..Len(m)}
MapHas(m, k) == k \in MapKeys(m)
MapGet(m, k) == (CHOOSE e \in {m[i] : i \in 1..Len(m)} : e.key = k).value

\* Map.prototype.set: an existing key keeps its place and gets the new value,
\* a new key goes last.
MapSet(m, k, v) ==
    IF MapHas(m, k)
    THEN [i \in 1..Len(m) |-> IF m[i].key = k THEN [key |-> k, value |-> v] ELSE m[i]]
    ELSE Append(m, [key |-> k, value |-> v])

\* ---- the plain object the cache is saved as ----
\* An object with string keys: its own keys in property order, and the value
\* of each.  The keys are file paths ending in ".md", never integer-like, so
\* property order is the order in which the keys were first set.
EmptyObject == [keys |-> <<>>, props |-> <<>>]

\* obj[k] = v
ObjectSet(o, k, v) ==
    [keys  |-> IF k \in DOMAIN o.props THEN o.keys ELSE Append(o.keys, k),
     props |-> [x \in DOMAIN o.props \cup {k} |-> IF x = k THEN v ELSE o.props[x]]]

\* The Map itself handed to the serialiser: a Map has no own properties.
ObjectFromMap(m) == EmptyObject

\* Object.fromEntries(map): each entry of the Map is set, in the Map's order.
RECURSIVE ObjectFromEntries(_)
ObjectFromEntries(m) ==
    IF Len(m) = 0 THEN EmptyObject
    ELSE LET last == m[Len(m)]
         IN  ObjectSet(ObjectFromEntries(SubSeq(m, 1, Len(m) - 1)), last.key, last.value)

\* Object.entries(obj): the [key, value] pairs in property order.
ObjectEntries(o) ==
    [i \in 1..Len(o.keys) |-> [key |-> o.keys[i], value |-> o.props[o.keys[i]]]]

\* new Map(entries): each pair is set, in order.
RECURSIVE MapFromEntries(_)
MapFromEntries(entries) ==
    IF Len(entries) = 0 THEN <<>>
    ELSE LET last == entries[Len(entries)]
         IN  MapSet(MapFromEntries(SubSeq(entries, 1, Len(entries) - 1)),
                    last.key, last.value)

-----------------------------------------------------------------------------
\* ---- the embedding capability and cosine similarity ----

Range(s) == {s[i] : i \in 1..Len(s)}

\* model.embedContent(text): the provider's vector for a text.  The model's
\* provider gives one axis to texts that hold an 'a' and one to texts that hold
\* a 'b' (a text with neither gets the zero vector).
EmbedVec(text) ==
    <<IF "a" \in Range(text) THEN 1 ELSE 0, IF "b" \in Range(text) THEN 1 ELSE 0>>

RECURSIVE SumTo(_, _)
SumTo(f, n) == IF n = 0 THEN 0 ELSE f[n] + SumTo(f, n - 1)

\* cosineSimilarity(a, b) = dotProduct / (magnitudeA * magnitudeB), kept exact as
\* dot / sqrt(mag2) with mag2 = |a|^2 * |b|^2.  It is NaN when b is shorter than
\* a (val * undefined) and when a magnitude is zero (0 / 0).
CosineSimilarity(a, b) ==
    LET short == Len(b) < Len(a)
        dot   == IF short THEN 0 ELSE SumTo([i \in 1..Len(a) |-> a[i] * b[i]], Len(a))
        magA2 == SumTo([i \in 1..Len(a) |-> a[i] * a[i]], Len(a))
        magB2 == SumTo([i \in 1..Len(b) |-> b[i] * b[i]], Len(b))
    IN  [nan |-> short \/ magA2 * magB2 = 0, dot |-> dot, mag2 |-> magA2 * magB2]

\* A threshold test that lets every number through.
SimIsNumber(s, threshold) == ~s.nan

\* similarity >= threshold (hundredths); a comparison with NaN is false.
SimAtLeast(s, threshold) ==
    /\ ~s.nan
    /\ IF threshold <= 0
       THEN s.dot >= 0 \/ 10000 * s.dot * s.dot <= threshold * threshold * s.mag2
       ELSE s.dot >= 0 /\ 10000 * s.dot * s.dot >= threshold * threshold * s.mag2

\* x > y for two similarities that are numbers
SimGreater(x, y) ==
    IF x.dot >= 0 /\ y.dot >= 0 THEN x.dot * x.dot * y.mag2 > y.dot * y.dot * x.mag2
    ELSE IF x.dot >= 0 THEN TRUE
    ELSE IF y.dot >= 0 THEN FALSE
    ELSE x.dot * x.dot * y.mag2 < y.dot * y.dot * x.mag2

\* An insertion that puts an element before the elements equal to it.
RECURSIVE InsertBeforeEqual(_, _)
InsertBeforeEqual(sorted, c) ==
    IF sorted = <<>> THEN <<c>>
    ELSE IF ~SimGreater(Head(sorted).similarity, c.similarity)
         THEN <<c>> \o sorted
         ELSE <<Head(sorted)>> \o InsertBeforeEqual(Tail(sorted), c)

\* Array.prototype.sort with (a, b) => b.similarity - a.similarity: stable, so
\* an element goes after every element that is not smaller than it.
RECURSIVE InsertBySimilarity(_, _)
InsertBySimilarity(sorted, c) ==
    IF sorted = <<>> THEN <<c>>
    ELSE IF SimGreater(c.similarity, Head(sorted).similarity)
         THEN <<c>> \o sorted
         ELSE <<Head(sorted)>> \o InsertBySimilarity(Tail(sorted), c)

RECURSIVE SortBySimilarity(_)
SortBySimilarity(cs) ==
    IF cs = <<>> THEN <<>>
    ELSE InsertBySimilarity(SortBySimilarity(SubSeq(cs, 1, Len(cs) - 1)), cs[Len(cs)])

\* The chunks of all records, in Map order then chunk order.
RECURSIVE AllChunks(_)
AllChunks(m) ==
    IF m = <<>> THEN <<>> ELSE Head(m).value.chunks \o AllChunks(Tail(m))

\* if (chunk.embedding): DocumentChunk.embedding is optional, and an array (an
\* empty one too) is truthy.
HasEmbedding(c) == "embedding" \in DOMAIN c

\* The scan of searchSimilarChunks: the chunks whose similarity reaches the
\* threshold, each with its similarity.
RECURSIVE Matching(_, _, _)
Matching(chunks, queryEmbedding, threshold) ==
    IF chunks = <<>> THEN <<>>
    ELSE LET c   == Head(chunks)
             sim == CosineSimilarity(queryEmbedding, c.embedding)
             rest == Matching(Tail(chunks), queryEmbedding, threshold)
         IN  IF HasEmbedding(c) /\ SimAtLeast(sim, threshold)
             THEN <<[content |-> c.content, filePath |-> c.filePath,
                     fileName |-> c.fileName, embedding |-> c.embedding,
                     similarity |-> sim]>> \o rest
             ELSE rest

\* A search that returns the whole ranking.
SearchSimilarChunksUntruncated(queryEmbedding, cache, s) ==
    SortBySimilarity(Matching(AllChunks(cache), queryEmbedding, s.similarityThreshold))

\* EmbeddingUtils.searchSimilarChunks
SearchSimilarChunks(queryEmbedding, cache, s) ==
    LET ranked == SortBySimilarity(Matching(AllChunks(cache), queryEmbedding,
                                            s.similarityThreshold))
    IN  SubSeq(ranked, 1, Min(s.maxResults, Len(ranked)))

-----------------------------------------------------------------------------
\* ---- the plugin ----

NoData == [kind |-> "none"]
NoCall == [called |-> FALSE]
NoCache == [taken |-> FALSE]

\* The plugin is loaded and running; nothing was saved at an unload.
LifeRunning == [pc |-> "running", raised |-> FALSE, read |-> "none", saved |-> NoCache]

RbIdle == [pc |-> "idle", files |-> <<>>, i |-> 0, processedFiles |-> 0, saves |-> 0]

QIdle ==
    [pc |-> "idle", query |-> <<>>, embedded |-> "none", relevantChunks |-> <<>>,
     prompt |-> <<>>, genLog |-> <<>>, result |-> <<>>, error |-> "none"]

\* The chunker's variables while the plugin runs.
ChunkIdle ==
    /\ ckText = <<>>
    /\ ckSize = 1
    /\ ckOverlap = 0
    /\ ckStart = 0
    /\ ckChunks = <<>>
    /\ ckPc = "done"
    /\ ckSeen = {}

SrIdle == [pc |-> "idle"]
CosIdle == [pc |-> "idle"]

\* The chat view as constructed: chatHistory = [], isProcessing = false.
ChatIdle == [pc |-> "idle", isProcessing |-> FALSE, chatHistory |-> <<>>, message |-> <<>>,
             relevantChunks |-> <<>>, saves |-> <<>>]

\* No call is running.
CallsIdle ==
    /\ rb = RbIdle
    /\ q = QIdle
    /\ lastChunkCall = NoCall
    /\ rbBefore = NoCache
    /\ scanLog = NoCache
    /\ life = LifeRunning

\* No pure function is run on its own.
PureIdle == sr = SrIdle /\ cos = CosIdle

\* The plugin as constructed and loaded with no saved data: the field
\* initialisers and loadSettings.
PluginInit ==
    /\ settings = DEFAULT_SETTINGS
    /\ genAI = FALSE
    /\ embeddingCache = <<>>
    /\ data = NoData
    /\ CallsIdle
    /\ chat = ChatIdle

\* chunkText inside a running rebuild never returned: the runtime's only
\* thread is inside the loop, and no other handler runs again.
Hung == rb.pc = "hung"

\* ---- the settings tab ----

\* initializeGemini: a client is made when a key is set.
InitializeGemini(s, client) == IF s.apiKey # "" THEN TRUE ELSE client

\* saveSettings: saveData(this.settings), then initializeGemini.
SaveSettings(s) ==
    /\ settings' = s
    /\ data' = [kind |-> "settings", value |-> s]
    /\ genAI' = InitializeGemini(s, genAI)

SetApiKey(v) ==
    /\ ~Hung
    /\ v # settings.apiKey
    /\ SaveSettings([settings EXCEPT !.apiKey = v])
    /\ UNCHANGED <<embeddingCache, envVars, rb, q, chunkVars, pureVars, chat, obsVars, life>>

\* The chunk size slider's onChange: no check against the overlap.
SetChunkSize(v) ==
    /\ ~Hung
    /\ v # settings.chunkSize
    /\ SaveSettings([settings EXCEPT !.chunkSize = v])
    /\ UNCHANGED <<embeddingCache, envVars, rb, q, chunkVars, pureVars, chat, obsVars, life>>

\* The chunk overlap slider's onChange: no check against the chunk size.
SetChunkOverlap(v) ==
    /\ ~Hung
    /\ v # settings.chunkOverlap
    /\ SaveSettings([settings EXCEPT !.chunkOverlap = v])
    /\ UNCHANGED <<embeddingCache, envVars, rb, q, chunkVars, pureVars, chat, obsVars, life>>

\* ---- the host ----

\* The user edits a file, or it becomes unreadable.  An edit made while a
\* rebuild runs reaches the cache as the same edit made before the rebuild (the
\* file is not yet read) or after it (the file is already read), so the host
\* edits between rebuilds.
EditFile(f, t) ==
    /\ ~Hung
    /\ rb.pc = "idle"
    /\ vault[f] # t
    /\ vault' = [vault EXCEPT ![f] = t]
    /\ UNCHANGED <<genPlan, settings, genAI, embeddingCache, data, rb, q, chunkVars, pureVars, chat, obsVars, life>>

\* The user deletes a file: the host lists it no more.
Deleted == "deleted"

DeleteFile(f) ==
    /\ ~Hung
    /\ rb.pc = "idle"
    /\ vault[f] # Deleted
    /\ vault' = [vault EXCEPT ![f] = Deleted]
    /\ UNCHANGED <<genPlan, settings, genAI, embeddingCache, data, rb, q, chunkVars, pureVars, chat, obsVars, life>>

\* this.app.vault.getMarkdownFiles(): the files there are, in the host's order.
GetMarkdownFiles(v) == SelectSeq(Files, LAMBDA f : v[f] # Deleted)

\* ---- ingestion ----

\* The chunks pushed to documentChunks: the eligible chunks whose getEmbedding
\* call gave a vector (embedded: their indices), each with its vector.
\* A loop that pushes every eligible chunk, with no vector when getEmbedding
\* gave none.
DocumentChunksKeepFailed(file, eligible, embedded) ==
    [i \in 1..Len(eligible) |->
        IF i \in embedded
        THEN [content |-> eligible[i], filePath |-> file, fileName |-> FileName(file),
              embedding |-> EmbedVec(eligible[i])]
        ELSE [content |-> eligible[i], filePath |-> file, fileName |-> FileName(file)]]

\* A source of which one embedding failed gets a record without chunks.
DocumentChunksAllOrNothing(file, eligible, embedded) ==
    IF embedded # 1..Len(eligible) THEN <<>>
    ELSE [i \in 1..Len(eligible) |->
            [content |-> eligible[i], filePath |-> file, fileName |-> FileName(file),
             embedding |-> EmbedVec(eligible[i])]]

\* The loop over the chunks: a chunk is pushed when getEmbedding gave a vector
\* for it (embedded: the indices of those chunks among the eligible ones).
DocumentChunks(file, eligible, embedded) ==
    LET kept == SelectSeq2(eligible, embedded, 1)
    IN  [i \in 1..Len(kept) |->
            [content |-> kept[i], filePath |-> file, fileName |-> FileName(file),
             embedding |-> EmbedVec(kept[i])]]

\* A cache write that appends to the record it finds instead of replacing it.
CachePutMerging(cache, file, chunks) ==
    IF MapHas(cache, file)
    THEN MapSet(cache, file, [chunks |-> MapGet(cache, file).chunks \o chunks])
    ELSE MapSet(cache, file, [chunks |-> chunks])

\* this.embeddingCache.set(file.path, embeddingData)
CachePut(cache, file, chunks) == MapSet(cache, file, [chunks |-> chunks])

\* ---- rebuildEmbeddings ----

\* The command or the settings button: without a client it returns at once,
\* otherwise it lists the files and enters the loop.
\* A rebuild that first drops the records of the files the host lists no more.
CacheAtRebuildStartPruned(cache, files) ==
    SelectSeq(cache, LAMBDA e : e.key \in {files[i] : i \in 1..Len(files)})

\* The Map when the loop of rebuildEmbeddings starts: nothing is cleared or
\* deleted before it.
CacheAtRebuildStart(cache, files) == cache

RebuildStart ==
    /\ ~Hung
    /\ rb.pc = "idle"
    /\ IF genAI
       THEN /\ rb' = [RbIdle EXCEPT !.pc = "running", !.files = GetMarkdownFiles(vault)]
            /\ embeddingCache' = CacheAtRebuildStart(embeddingCache, GetMarkdownFiles(vault))
            /\ rbBefore' = [taken |-> TRUE, cache |-> embeddingCache]
            /\ scanLog' = NoCache
            /\ lastChunkCall' = NoCall
       ELSE UNCHANGED <<rb, obsVars, embeddingCache>>
    /\ UNCHANGED <<settings, genAI, data, envVars, q, chunkVars, pureVars, chat, life>>

\* A pass that leaves an empty record for a file it could not read.
RebuildFileUnreadableEmptyRecord ==
    /\ ~Hung
    /\ rb.pc = "running"
    /\ rb.i < Len(rb.files)
    /\ vault[rb.files[rb.i + 1]] = Unreadable
    /\ rb' = [rb EXCEPT !.i = @ + 1, !.processedFiles = @ + 1]
    /\ embeddingCache' = CachePut(embeddingCache, rb.files[rb.i + 1], <<>>)
    /\ UNCHANGED <<settings, genAI, data, envVars, q, chunkVars, pureVars, chat, obsVars, life>>

\* One pass of the loop: processFileForEmbeddings(file) fails to read the file.
\* The error is caught, null is returned and the cache is not written.
RebuildFileUnreadable ==
    /\ ~Hung
    /\ rb.pc = "running"
    /\ rb.i < Len(rb.files)
    /\ vault[rb.files[rb.i + 1]] = Unreadable
    /\ rb' = [rb EXCEPT !.i = @ + 1, !.processedFiles = @ + 1]
    /\ UNCHANGED <<settings, genAI, embeddingCache, data, envVars, q, chunkVars, pureVars, chat, obsVars, life>>

\* One pass of the loop on a readable file: read, chunkText, one getEmbedding
\* per eligible chunk (each may fail and the chunk is skipped), cache.set.
\* When chunkText does not return, nothing after it happens.
RebuildFile ==
    /\ ~Hung
    /\ rb.pc = "running"
    /\ rb.i < Len(rb.files)
    /\ vault[rb.files[rb.i + 1]] # Unreadable
    /\ LET file == rb.files[rb.i + 1]
           run  == Chunked(vault[file], settings.chunkSize, settings.chunkOverlap)
           eligible == run.eligible
       IN  IF run.diverges
           THEN /\ rb' = [rb EXCEPT !.pc = "hung"]
                /\ lastChunkCall' = [called |-> TRUE, chunkSize |-> settings.chunkSize,
                                     overlap |-> settings.chunkOverlap, succeeded |-> {}]
                /\ UNCHANGED embeddingCache
           ELSE \E embedded \in SUBSET (1..Len(eligible)) :
                      /\ lastChunkCall' =
                             [called |-> TRUE, chunkSize |-> settings.chunkSize,
                              overlap |-> settings.chunkOverlap, succeeded |-> embedded]
                      /\ embeddingCache' =
                             CachePut(embeddingCache, file,
                                      DocumentChunks(file, eligible, embedded))
                      /\ rb' = [rb EXCEPT !.i = @ + 1, !.processedFiles = @ + 1]
    /\ UNCHANGED <<settings, genAI, data, envVars, q, chunkVars, pureVars, chat, rbBefore, scanLog, life>>

\* saveEmbeddingsToCache: saveData({embeddingCache: ...}); a failure is caught.
SaveEmbeddingsToCache(ok) ==
    IF ok THEN data' = [kind |-> "cache", value |-> ObjectFromEntries(embeddingCache)]
    ELSE UNCHANGED data

\* After the loop: the one save of the batch.
RebuildSave ==
    /\ ~Hung
    /\ rb.pc = "running"
    /\ rb.i = Len(rb.files)
    /\ \E ok \in BOOLEAN : SaveEmbeddingsToCache(ok)
    /\ rb' = [rb EXCEPT !.pc = "saved", !.saves = @ + 1]
    /\ UNCHANGED <<settings, genAI, embeddingCache, envVars, q, chunkVars, pureVars, chat, obsVars, life>>

\* After the save: the status bar and the notice; the call returns.
RebuildFinish ==
    /\ ~Hung
    /\ rb.pc = "saved"
    /\ rb' = RbIdle
    /\ rbBefore' = NoCache
    /\ scanLog' = NoCache
    /\ lastChunkCall' = NoCall
    /\ UNCHANGED <<settings, genAI, embeddingCache, data, envVars, q, chunkVars, pureVars, chat, life>>

\* ---- queryWithRAG ----

Queries == {<<"a">>, <<"b">>}

\* What the generation capability answers to the first, second and third call
\* of a query.
GenOutcomes == {"ok", "unavailable", "auth", "rateLimited", "other"}
GenPlans ==
    {<<x, "ok", "ok">> : x \in GenOutcomes}
        \cup {<<"unavailable", "unavailable", z>> : z \in {"ok", "unavailable"}}

NoResult == [kind |-> "none"]
\* 'No relevant content found in your vault for this query.'
NoRelevantText == [kind |-> "noRelevantContent"]
\* response.text() of the generation call number `attempt`
GenText(attempt) == [kind |-> "generated", attempt |-> attempt]

\* getEmbedding: the provider's vector, or null when the call throws (the
\* error is caught and logged).
GetEmbedding(ok, text) ==
    IF ok THEN [isNull |-> FALSE, values |-> EmbedVec(text)] ELSE [isNull |-> TRUE]

\* A scan that writes each similarity it computes into the cached chunk.
CacheAfterSearchScored(queryEmbedding, cache, s) ==
    IF queryEmbedding.isNull THEN cache
    ELSE [r \in 1..Len(cache) |->
            [key |-> cache[r].key,
             value |-> [chunks |->
                 [k \in 1..Len(cache[r].value.chunks) |->
                     LET c == cache[r].value.chunks[k]
                     IN  IF HasEmbedding(c)
                         THEN [content |-> c.content, filePath |-> c.filePath,
                               fileName |-> c.fileName, embedding |-> c.embedding,
                               similarity |-> CosineSimilarity(queryEmbedding.values,
                                                               c.embedding)]
                         ELSE c]]]]

\* The cache after a search: allChunks.push({ ...chunk, similarity }) copies the
\* chunk, and sort and slice act on allChunks, so the Map and its chunks are as
\* they were.
CacheAfterSearch(queryEmbedding, cache, s) == cache

\* The plugin's searchSimilarChunks after its await: no scan without a vector.
SearchAfterEmbedding(queryEmbedding, cache, s) ==
    IF queryEmbedding.isNull THEN <<>>
    ELSE SearchSimilarChunks(queryEmbedding.values, cache, s)

\* A query that goes on to the generation call with no chunk.
EmptyShortCircuitNever(relevantChunks) == FALSE

\* if (relevantChunks.length === 0)
EmptyShortCircuit(relevantChunks) == Len(relevantChunks) = 0

\* '\n\n---\n\n'
Delimiter == [delimiter |-> "---"]

\* `From "${chunk.fileName}":\n${chunk.content}`: the label, then the content.
ContextPiece(chunk) == <<[label |-> chunk.fileName], [text |-> chunk.content]>>

\* A join that leaves the separator out.
RECURSIVE JoinNoSeparator(_, _)
JoinNoSeparator(parts, sep) ==
    IF Len(parts) = 0 THEN <<>>
    ELSE Head(parts) \o JoinNoSeparator(Tail(parts), sep)

\* Array.prototype.join: the parts in order, the separator between two parts.
RECURSIVE Join(_, _)
Join(parts, sep) ==
    IF Len(parts) = 0 THEN <<>>
    ELSE IF Len(parts) = 1 THEN Head(parts)
    ELSE Head(parts) \o <<sep>> \o Join(Tail(parts), sep)

\* The context of the prompt: relevantChunks.map(...).join(...), as the
\* sequence of its labels, contents and delimiters.
BuildContext(relevantChunks) ==
    Join([i \in 1..Len(relevantChunks) |-> ContextPiece(relevantChunks[i])], Delimiter)

\* A catch that logs the error and returns the fixed text instead of rethrowing.
OnGenerateErrorSwallowed(call, err) == [call EXCEPT !.pc = "done", !.result = NoRelevantText]

\* The catch around the generation call: log and rethrow.
OnGenerateError(call, err) == [call EXCEPT !.pc = "failed", !.error = err]

\* return response.text()
OnGenerateSuccess(call, attempt) == [call EXCEPT !.pc = "done", !.result = GenText(attempt)]

\* queryWithRAG(query) up to its first await: without a client it throws,
\* otherwise searchSimilarChunks awaits the query's embedding.
QueryStart(query) ==
    /\ ~Hung
    /\ q.pc = "idle"
    /\ q' = IF genAI
            THEN [QIdle EXCEPT !.pc = "embedding", !.query = query]
            ELSE [QIdle EXCEPT !.pc = "failed", !.query = query,
                               !.error = "notInitialized"]
    /\ UNCHANGED <<settings, genAI, embeddingCache, data, envVars, rb, chunkVars, pureVars, chat, obsVars, life>>

\* The embedding call returns (ok) or throws: the scan of the cache as it is
\* now, the short circuit on an empty result, or the prompt and the one
\* generation call.
QueryEmbedReturn(ok) ==
    /\ ~Hung
    /\ q.pc = "embedding"
    /\ LET queryEmbedding == GetEmbedding(ok, q.query)
           relevantChunks == SearchAfterEmbedding(queryEmbedding, embeddingCache, settings)
           searched == [q EXCEPT !.embedded = IF ok THEN "ok" ELSE "failed",
                                 !.relevantChunks = relevantChunks]
       IN  /\ scanLog' = IF ok /\ rb.pc = "running"
                         THEN [taken |-> TRUE, cache |-> embeddingCache]
                         ELSE scanLog
           /\ IF EmptyShortCircuit(relevantChunks)
              THEN q' = [searched EXCEPT !.pc = "done", !.result = NoRelevantText]
              ELSE q' = [searched EXCEPT
                            !.pc = "generating",
                            !.prompt = [context |-> BuildContext(relevantChunks),
                                        question |-> q.query],
                            !.genLog = <<[attempt |-> 1,
                                          model |-> settings.generativeModel]>>]
           /\ embeddingCache' = CacheAfterSearch(queryEmbedding, embeddingCache, settings)
    /\ UNCHANGED <<settings, genAI, data, envVars, rb, chunkVars, pureVars, chat,
                   lastChunkCall, rbBefore, life>>

\* The generation call returns or throws.
QueryGenReturn ==
    /\ ~Hung
    /\ q.pc = "generating"
    /\ LET attempt == Len(q.genLog)
           outcome == genPlan[attempt]
       IN  q' = IF outcome = "ok"
                THEN OnGenerateSuccess(q, attempt)
                ELSE OnGenerateError(q, outcome)
    /\ UNCHANGED <<settings, genAI, embeddingCache, data, envVars, rb, chunkVars, pureVars, chat, obsVars, life>>

\* The caller has the text or the error.
QueryFinish ==
    /\ ~Hung
    /\ q.pc \in {"done", "failed"}
    /\ q' = QIdle
    /\ UNCHANGED <<settings, genAI, embeddingCache, data, envVars, rb, chunkVars, pureVars, chat, obsVars, life>>

-----------------------------------------------------------------------------
\* ---- specifications ----

VaultStates == [FileSet -> TextIds \cup {Unreadable}]

\* The cache a completed rebuild leaves, from an empty cache, for a vault whose
\* embedding calls all succeed under settings s.
RECURSIVE CacheOfVault(_, _, _)
CacheOfVault(v, s, n) ==
    IF n = 0 THEN <<>>
    ELSE LET before == CacheOfVault(v, s, n - 1)
             file   == Files[n]
         IN  IF v[file] = Unreadable THEN before
             ELSE LET eligible == Chunked(v[file], s.chunkSize, s.chunkOverlap).eligible
                  IN  CachePut(before, file,
                               DocumentChunks(file, eligible, 1..Len(eligible)))

KeySet == [DEFAULT_SETTINGS EXCEPT !.apiKey = "key"]
BuiltCaches == {CacheOfVault(v, KeySet, Len(Files)) : v \in VaultStates}

ChunkSliders ==
    \/ \E v \in ChunkSizeChoices \cup {DEFAULT_SETTINGS.chunkSize} : SetChunkSize(v)
    \/ \E v \in OverlapChoices : SetChunkOverlap(v)

Host == \E f \in FileSet, t \in TextIds \cup {Unreadable} : EditFile(f, t)

Rebuild ==
    \/ RebuildStart
    \/ RebuildFileUnreadable
    \/ RebuildFile
    \/ RebuildSave
    \/ RebuildFinish

Query ==
    \/ \E query \in Queries : QueryStart(query)
    \/ \E ok \in BOOLEAN : QueryEmbedReturn(ok)
    \/ QueryGenReturn
    \/ QueryFinish

\* Ingestion: a plugin loaded with a key in its saved settings and no saved
\* cache; the chunk sliders, the host's edits and rebuilds.
IngestInit ==
    /\ ChunkIdle
    /\ PureIdle
    /\ chat = ChatIdle
    /\ settings = KeySet
    /\ genAI = InitializeGemini(KeySet, FALSE)
    /\ embeddingCache = <<>>
    /\ data = [kind |-> "settings", value |-> KeySet]
    /\ CallsIdle
    /\ vault \in VaultStates
    /\ genPlan = <<"ok", "ok", "ok">>

IngestNext == ChunkSliders \/ Host \/ Rebuild

IngestSpec == IngestInit /\ [][IngestNext]_vars

\* A plugin with a key set and the cache of an earlier rebuild.
LoadedInit ==
    /\ ChunkIdle
    /\ PureIdle
    /\ chat = ChatIdle
    /\ settings = KeySet
    /\ genAI = TRUE
    /\ embeddingCache \in BuiltCaches
    /\ data = [kind |-> "cache", value |-> ObjectFromEntries(embeddingCache)]
    /\ CallsIdle

\* Queries, one after the other, against the cache of an earlier rebuild,
\* while the user sets and clears the key.
QueryInit ==
    /\ LoadedInit
    /\ vault = [f \in FileSet |-> Unreadable]
    /\ genPlan \in GenPlans

QueryNext == Query \/ \E v \in ApiKeys : SetApiKey(v)

QuerySpec == QueryInit /\ [][QueryNext]_vars

\* Rebuilds and queries side by side: the vault has changed in any way since
\* the cache was built.
Init ==
    /\ LoadedInit
    /\ vault \in VaultStates
    /\ genPlan \in {<<"ok", "ok", "ok">>, <<"unavailable", "ok", "ok">>}

Next == Rebuild \/ Query

Spec == Init /\ [][Next]_vars

\* Rebuilds of a vault whose files are edited, deleted and made again between
\* them, from the cache of an earlier rebuild.
VaultInit ==
    /\ LoadedInit
    /\ vault \in VaultStates
    /\ genPlan = <<"ok", "ok", "ok">>

VaultNext == Rebuild \/ Host \/ \E f \in FileSet : DeleteFile(f)

VaultSpec == VaultInit /\ [][VaultNext]_vars

\* Rebuilds and queries side by side on the cache built from the vault as it
\* is (its second file cannot be read), after the user has moved the sliders to chunk size 200 and overlap 150,
\* each remote call of a query returning or
\* failing in the end: the runtime runs the continuation of a call that has
\* returned whenever its one thread is free.
FairInit ==
    /\ ChunkIdle
    /\ PureIdle
    /\ chat = ChatIdle
    /\ settings = [KeySet EXCEPT !.chunkSize = 200, !.chunkOverlap = 150]
    /\ genAI = TRUE
    /\ vault \in {v \in VaultStates : v[Files[2]] = Unreadable}
    /\ embeddingCache = CacheOfVault(vault, KeySet, Len(Files))
    /\ data = [kind |-> "settings", value |-> settings]
    /\ CallsIdle
    /\ genPlan = <<"ok", "ok", "ok">>

FairSpec ==
    /\ FairInit
    /\ [][Next]_vars
    /\ WF_vars(\E ok \in BOOLEAN : QueryEmbedReturn(ok))
    /\ WF_vars(QueryGenReturn)

-----------------------------------------------------------------------------
\* ---- the chunker run step by step ----

Alphabet == {"a", ".", " "}

RECURSIVE TextsOfLen(_)
TextsOfLen(n) ==
    IF n = 0 THEN {<<>>}
    ELSE {Append(t, c) : t \in TextsOfLen(n - 1), c \in Alphabet}

ChunkInputs == UNION {TextsOfLen(n) : n \in 0..MaxTextLen}

\* Every text up to MaxTextLen and every valid configuration
\* (chunkSize > 0, 0 <= overlap < chunkSize).
ChunkInit ==
    /\ ckText \in ChunkInputs
    /\ ckSize \in 1..MaxChunkSize
    /\ ckOverlap \in 0..(ckSize - 1)
    /\ ckStart = 0
    /\ ckChunks = <<>>
    /\ ckPc = "loop"
    /\ ckSeen = {}
    /\ PluginInit
    /\ PureIdle
    /\ vault = [f \in FileSet |-> Unreadable]
    /\ genPlan = <<"ok", "ok", "ok">>

\* A window start met before: the loop is in a cycle and runs forever.
ChunkCycles == ckPc = "loop" /\ ckStart < Len(ckText) /\ ckStart \in ckSeen

\* One iteration of the while loop.  Not unrolled past the first repeated
\* window start.
ChunkStep ==
    /\ ckPc = "loop"
    /\ ckStart < Len(ckText)
    /\ ckStart \notin ckSeen
    /\ LET w == Window(ckText, ckSize, ckOverlap, ckStart)
       IN  /\ ckChunks' = Append(ckChunks, w.chunk)
           /\ ckStart' = w.next
    /\ ckSeen' = ckSeen \cup {ckStart}
    /\ UNCHANGED <<ckText, ckSize, ckOverlap, ckPc, pluginVars, obsVars, pureVars, chat>>

\* The loop test fails: return chunks.filter(...)
ChunkReturn ==
    /\ ckPc = "loop"
    /\ ~(ckStart < Len(ckText))
    /\ ckChunks' = FilterNonEmpty(ckChunks)
    /\ ckPc' = "done"
    /\ UNCHANGED <<ckText, ckSize, ckOverlap, ckStart, ckSeen, pluginVars, obsVars, pureVars, chat>>

ChunkNext == ChunkStep \/ ChunkReturn

ChunkSpec == ChunkInit /\ [][ChunkNext]_vars

\* The chunker on longer texts of letters and sentence ends, so that a window
\* of MaxChunkSize that is not the first is not the last either.
MaxLongTextLen == 10

RECURSIVE ProseOfLen(_)
ProseOfLen(n) ==
    IF n = 0 THEN {<<>>}
    ELSE {Append(t, c) : t \in ProseOfLen(n - 1), c \in {"a", "."}}

LongInputs == UNION {ProseOfLen(n) : n \in 0..MaxLongTextLen}

LongChunkInit ==
    /\ ckText \in LongInputs
    /\ ckSize \in 1..MaxChunkSize
    /\ ckOverlap \in 0..(ckSize - 1)
    /\ ckStart = 0
    /\ ckChunks = <<>>
    /\ ckPc = "loop"
    /\ ckSeen = {}
    /\ PluginInit
    /\ PureIdle
    /\ vault = [f \in FileSet |-> Unreadable]
    /\ genPlan = <<"ok", "ok", "ok">>

LongChunkSpec == LongChunkInit /\ [][ChunkNext]_vars

-----------------------------------------------------------------------------
\* ---- ChatView ----

\* Bounds of the chat: the messages of chatHistory and the saveChatHistory
\* calls that have not yet written.
MaxHistory == 2
MaxPendingSaves == 2

UserMessage(message) == [role |-> "user", content |-> message]

\* sources: relevantChunks.length > 0 ? relevantChunks : undefined
AssistantMessage(response, relevantChunks) ==
    IF Len(relevantChunks) > 0
    THEN [role |-> "assistant", content |-> response, sources |-> relevantChunks]
    ELSE [role |-> "assistant", content |-> response]

\* 'Sorry, I encountered an error processing your message. ...'
ChatErrorMessage == [role |-> "assistant", content |-> [kind |-> "chatError"]]

\* this.saveChatHistory(), not awaited: the call is left waiting for loadData.
StartSave(saves) == Append(saves, [pc |-> "loading"])

\* The end of sendMessage: the reply is pushed, saveChatHistory is called and
\* isProcessing is false again.
ChatReplied(reply) ==
    [chat EXCEPT !.pc = "idle",
                 !.chatHistory = Append(@, reply),
                 !.saves = StartSave(@),
                 !.isProcessing = FALSE,
                 !.message = <<>>,
                 !.relevantChunks = <<>>]

\* A send that does not look at the flag.
CanSendAlways(view) == TRUE

\* if (!message || this.isProcessing) return
CanSend(view) == ~view.isProcessing

\* sendMessage up to its first wait.  Without a client searchSimilarChunks
\* returns [] and queryWithRAG throws with no remote call in between, so the
\* error message is pushed in the same turn; with a client the search waits for
\* the message's embedding.
ChatSend(message) ==
    /\ ~Hung
    /\ CanSend(chat)
    /\ Len(chat.chatHistory) + 2 <= MaxHistory
    /\ Len(chat.saves) < MaxPendingSaves
    /\ LET sent == [chat EXCEPT !.isProcessing = TRUE,
                                !.chatHistory = Append(@, UserMessage(message)),
                                !.message = message]
       IN  chat' = IF genAI
                   THEN [sent EXCEPT !.pc = "searching"]
                   ELSE [sent EXCEPT !.pc = "idle",
                                     !.chatHistory = Append(@, ChatErrorMessage),
                                     !.saves = StartSave(@),
                                     !.isProcessing = FALSE,
                                     !.message = <<>>]
    /\ UNCHANGED <<pluginVars, chunkVars, obsVars, pureVars>>

\* plugin.searchSimilarChunks(message) returns: the chunks are kept for the
\* reply and queryWithRAG(message) is called, which embeds the message again.
ChatSearchReturn(ok) ==
    /\ ~Hung
    /\ chat.pc = "searching"
    /\ q.pc = "idle"
    /\ chat' = [chat EXCEPT
                   !.pc = "querying",
                   !.relevantChunks =
                       SearchAfterEmbedding(GetEmbedding(ok, chat.message),
                                            embeddingCache, settings)]
    /\ q' = [QIdle EXCEPT !.pc = "embedding", !.query = chat.message]
    /\ embeddingCache' = CacheAfterSearch(GetEmbedding(ok, chat.message),
                                          embeddingCache, settings)
    /\ UNCHANGED <<settings, genAI, data, envVars, rb, chunkVars, obsVars, pureVars, life>>

\* queryWithRAG returns or throws: the assistant message, with the chunks of
\* the view's own search as its sources, or the error message.
ChatQueryReturn ==
    /\ ~Hung
    /\ chat.pc = "querying"
    /\ q.pc \in {"done", "failed"}
    /\ Len(chat.saves) < MaxPendingSaves
    /\ chat' = IF q.pc = "done"
               THEN ChatReplied(AssistantMessage(q.result, chat.relevantChunks))
               ELSE ChatReplied(ChatErrorMessage)
    /\ q' = QIdle
    /\ UNCHANGED <<settings, genAI, embeddingCache, data, envVars, rb, chunkVars,
                   obsVars, pureVars, life>>

\* clearChat: the Clear button, at any time.
ClearChat ==
    /\ ~Hung
    /\ Len(chat.saves) < MaxPendingSaves
    /\ chat.chatHistory # <<>>
    /\ chat' = [chat EXCEPT !.chatHistory = <<>>, !.saves = StartSave(@)]
    /\ UNCHANGED <<pluginVars, chunkVars, obsVars, pureVars>>

\* existingData = await loadData() || {}; existingData.chatHistory = this.chatHistory
SaveChatPayload(existingData, chatHistory) ==
    [chatHistory |-> chatHistory] @@ existingData

\* saveChatHistory after its loadData: the payload is the data read with the
\* chatHistory of this moment.  The calls read in the order they were made.
ChatSaveLoad ==
    /\ ~Hung
    /\ \E i \in 1..Len(chat.saves) :
          /\ chat.saves[i].pc = "loading"
          /\ \A j \in 1..(i - 1) : chat.saves[j].pc = "writing"
          /\ chat' = [chat EXCEPT !.saves[i] =
                         [pc |-> "writing",
                          payload |-> SaveChatPayload(data, chat.chatHistory)]]
    /\ UNCHANGED <<pluginVars, chunkVars, obsVars, pureVars>>

\* saveChatHistory's saveData lands (ok) or fails; the failure is caught.
ChatSaveWrite(ok) ==
    /\ ~Hung
    /\ chat.saves # <<>>
    /\ Head(chat.saves).pc = "writing"
    /\ data' = IF ok THEN Head(chat.saves).payload ELSE data
    /\ chat' = [chat EXCEPT !.saves = Tail(@)]
    /\ UNCHANGED <<settings, genAI, embeddingCache, envVars, rb, q, chunkVars,
                   obsVars, pureVars, life>>

Chat ==
    \/ \E message \in Queries : ChatSend(message)
    \/ \E ok \in BOOLEAN : ChatSearchReturn(ok)
    \/ ChatQueryReturn
    \/ ClearChat
    \/ ChatSaveLoad
    \/ \E ok \in BOOLEAN : ChatSaveWrite(ok)

\* The chat view of a plugin with the cache of an earlier rebuild, the key set
\* or not.
ChatInit ==
    /\ ChunkIdle
    /\ PureIdle
    /\ chat = ChatIdle
    /\ CallsIdle
    /\ \E key \in ApiKeys :
          /\ settings = [DEFAULT_SETTINGS EXCEPT !.apiKey = key]
          /\ genAI = InitializeGemini(settings, FALSE)
    /\ embeddingCache \in BuiltCaches
    /\ data = [kind |-> "cache", value |-> ObjectFromEntries(embeddingCache)]
    /\ vault = [f \in FileSet |-> Unreadable]
    /\ genPlan \in {<<"ok", "ok", "ok">>, <<"unavailable", "ok", "ok">>}

\* The view's sends and clears, and the remote calls of its queries.
ChatNext ==
    \/ Chat
    \/ \E ok \in BOOLEAN : QueryEmbedReturn(ok)
    \/ QueryGenReturn

ChatSpec == ChatInit /\ [][ChatNext]_vars

\* The view of a plugin with a key set and a cache built from one note, whose
\* first generation call fails: a send ends with an answer, with the
\* no-result text (the query that matches no chunk) or with an error.
BusyInit ==
    /\ ChatInit
    /\ settings.apiKey = "key"
    /\ genPlan = <<"unavailable", "ok", "ok">>
    /\ embeddingCache =
           CacheOfVault([f \in FileSet |-> IF f = Files[1] THEN "dot" ELSE Unreadable],
                        KeySet, Len(Files))

BusySpec == BusyInit /\ [][ChatNext]_vars

\* The data file after a rebuild has saved the cache: the chat view's sends
\* and clears, each with its saveChatHistory, and the settings tab's
\* saveSettings.  No rebuild runs, so the cache in memory stays the one saved.
DurableInit ==
    /\ ChatInit
    /\ genPlan = <<"ok", "ok", "ok">>

DurableNext == ChatNext \/ \E v \in ApiKeys : SetApiKey(v)

DurableSpec == DurableInit /\ [][DurableNext]_vars

-----------------------------------------------------------------------------
\* ---- searchSimilarChunks and cosineSimilarity run on their own ----

\* Bound of the vectors' lengths.
MaxVecLen == 2

\* The vectors of length n: the first component is -1, 0 or 1, the others 0
\* or 1.  On these vectors the exact comparisons of SimAtLeast and SimGreater
\* agree with the doubles the code computes, for the thresholds below.
RECURSIVE VecsOfLen(_)
VecsOfLen(n) ==
    IF n = 0 THEN {<<>>}
    ELSE IF n = 1 THEN {<<x>> : x \in {-1, 0, 1}}
    ELSE {Append(v, y) : v \in VecsOfLen(n - 1), y \in {0, 1}}

Vectors == UNION {VecsOfLen(n) : n \in 0..MaxVecLen}

\* A cached chunk: with a vector, or without one (embedding is optional).
SrChunk(content, file, e) ==
    IF ~e.has
    THEN [content |-> content, filePath |-> file, fileName |-> FileName(file)]
    ELSE [content |-> content, filePath |-> file, fileName |-> FileName(file),
          embedding |-> e.values]

ChunkVectors == {[has |-> FALSE]} \cup {[has |-> TRUE, values |-> v] : v \in Vectors}

\* The vectors of the last chunk of the cache: none, one of length 1 and one of
\* length 2.
LastChunkVectors ==
    {e \in ChunkVectors : ~e.has \/ e.values \in {<<1>>, <<1, 1>>}}

\* The caches searched: a.md with two chunks and b.md with one, as loaded from
\* the saved data.
SrCaches ==
    {<<[key |-> Files[1],
        value |-> [chunks |-> <<SrChunk(<<"x">>, Files[1], e1),
                                SrChunk(<<"y">>, Files[1], e2)>>]],
       [key |-> Files[2],
        value |-> [chunks |-> <<SrChunk(<<"z">>, Files[2], e3)>>]]>> :
        e1 \in ChunkVectors, e2 \in ChunkVectors, e3 \in LastChunkVectors}

\* The query vectors: what getEmbedding returned, null included.
SrQueries == {GetEmbedding(FALSE, <<>>)} \cup {[isNull |-> FALSE, values |-> v] : v \in Vectors}

\* similarityThreshold (hundredths) and maxResults of the settings searched with.
SrThresholds == {0, 75}
SrMaxResults == {1, 2}
SrSettings ==
    {[DEFAULT_SETTINGS EXCEPT !.similarityThreshold = t, !.maxResults = m] :
        t \in SrThresholds, m \in SrMaxResults}

SearchInit ==
    /\ ChunkIdle
    /\ PluginInit
    /\ cos = CosIdle
    /\ vault = [f \in FileSet |-> Unreadable]
    /\ genPlan = <<"ok", "ok", "ok">>
    /\ \E qe \in SrQueries, c \in SrCaches, s \in SrSettings :
          sr = [pc |-> "call", queryEmbedding |-> qe, cache |-> c, settings |-> s,
                result |-> <<>>]

\* The search returns.
SearchReturn ==
    /\ sr.pc = "call"
    /\ sr' = [sr EXCEPT !.pc = "done",
                        !.result = SearchAfterEmbedding(sr.queryEmbedding, sr.cache,
                                                        sr.settings)]
    /\ UNCHANGED <<chunkVars, pluginVars, obsVars, cos, chat>>

SearchNext == SearchReturn

SearchSpec == SearchInit /\ [][SearchNext]_vars

CosInit ==
    /\ ChunkIdle
    /\ PluginInit
    /\ sr = SrIdle
    /\ vault = [f \in FileSet |-> Unreadable]
    /\ genPlan = <<"ok", "ok", "ok">>
    /\ \E a \in Vectors, b \in Vectors : cos = [pc |-> "call", a |-> a, b |-> b]

\* cosineSimilarity(a, b) and cosineSimilarity(b, a) return.
CosReturn ==
    /\ cos.pc = "call"
    /\ cos' = [pc |-> "done", a |-> cos.a, b |-> cos.b,
               ab |-> CosineSimilarity(cos.a, cos.b),
               ba |-> CosineSimilarity(cos.b, cos.a)]
    /\ UNCHANGED <<chunkVars, pluginVars, obsVars, sr, chat>>

CosNext == CosReturn

CosineSpec == CosInit /\ [][CosNext]_vars

-----------------------------------------------------------------------------
\* ---- the plugin's life: onunload, and onload of the next session ----

MaxStamp == 2

\* The records of a cache with the Date.now() of their ingestion.
Stamped(cache, st) ==
    [i \in 1..Len(cache) |->
        [key   |-> cache[i].key,
         value |-> [chunks |-> cache[i].value.chunks, lastUpdated |-> st[i]]]]

StampedCaches ==
    {Stamped(c, st) : c \in BuiltCaches, st \in [1..Len(Files) -> 1..MaxStamp]}

\* What the plugin's data file can hold: nothing, saved settings, a saved cache.
Payloads ==
    {NoData, [kind |-> "settings", value |-> KeySet]}
        \cup {[kind |-> "cache", value |-> ObjectFromEntries(c)] : c \in StampedCaches}

\* The object loadData gives for a data file: saveData(this.settings) wrote
\* the settings' own keys at the top level, saveData({embeddingCache: ...}) the
\* one key embeddingCache, and saveChatHistory added the key chatHistory to
\* what it had read.
Flat(payload) ==
    LET top == IF payload.kind = "settings" THEN payload.value
               ELSE IF payload.kind = "cache" THEN [embeddingCache |-> payload.value]
               ELSE <<>>
    IN  [k \in DOMAIN top \cup (DOMAIN payload \cap {"chatHistory"}) |->
            IF k = "chatHistory" /\ "chatHistory" \in DOMAIN payload
            THEN payload.chatHistory
            ELSE top[k]]

\* cacheData && cacheData.embeddingCache
HasCache(payload) == "embeddingCache" \in DOMAIN Flat(payload)

\* loadSettings: Object.assign({}, DEFAULT_SETTINGS, await this.loadData()):
\* every key of the data file, the defaults for the settings it does not have.
LoadSettings(payload) ==
    LET flat == Flat(payload)
    IN  [k \in DOMAIN DEFAULT_SETTINGS \cup DOMAIN flat |->
            IF k \in DOMAIN flat THEN flat[k] ELSE DEFAULT_SETTINGS[k]]

\* loadEmbeddingsFromCache without its try/catch: a failed read reaches the caller.
LoadEmbeddingsUncaught(ok, payload, cache) ==
    [raised |-> ~ok,
     cache  |-> IF ok /\ HasCache(payload)
                THEN MapFromEntries(ObjectEntries(Flat(payload).embeddingCache))
                ELSE cache]

\* loadEmbeddingsFromCache: the Map is replaced when the data read has an
\* embeddingCache; otherwise, and when the read throws, it is left as it is.
LoadEmbeddingsFromCache(ok, payload, cache) ==
    [raised |-> FALSE,
     cache  |-> IF ok /\ HasCache(payload)
                THEN MapFromEntries(ObjectEntries(Flat(payload).embeddingCache))
                ELSE cache]

\* onunload: saveEmbeddingsToCache(), and the instance is dropped.
Unload ==
    /\ life.pc = "running"
    /\ rb.pc = "idle"
    /\ q.pc = "idle"
    /\ \E ok \in BOOLEAN :
          /\ SaveEmbeddingsToCache(ok)
          /\ life' = [pc |-> "unloaded", raised |-> FALSE, read |-> "none",
                      saved |-> IF ok THEN [taken |-> TRUE, cache |-> embeddingCache]
                                ELSE NoCache]
    /\ UNCHANGED <<settings, genAI, embeddingCache, envVars, rb, q, chunkVars,
                   obsVars, pureVars, chat>>

\* The host makes the next instance: the field initialisers.
Onload ==
    /\ life.pc = "unloaded"
    /\ embeddingCache' = <<>>
    /\ settings' = DEFAULT_SETTINGS
    /\ genAI' = FALSE
    /\ life' = [life EXCEPT !.pc = "loadSettings"]
    /\ UNCHANGED <<data, envVars, rb, q, chunkVars, obsVars, pureVars, chat>>

\* onload: await loadSettings(), then initializeGemini().  A read that throws
\* rejects onload.
OnloadSettings(ok) ==
    /\ life.pc = "loadSettings"
    /\ IF ok
       THEN /\ settings' = LoadSettings(data)
            /\ genAI' = InitializeGemini(settings', genAI)
            /\ life' = [life EXCEPT !.pc = "loadCache"]
       ELSE /\ life' = [life EXCEPT !.pc = "failed", !.raised = TRUE]
            /\ UNCHANGED <<settings, genAI>>
    /\ UNCHANGED <<embeddingCache, data, envVars, rb, q, chunkVars, obsVars,
                   pureVars, chat>>

\* onload: await loadEmbeddingsFromCache(), its last statement.
OnloadCache(ok) ==
    /\ life.pc = "loadCache"
    /\ LET r == LoadEmbeddingsFromCache(ok, data, embeddingCache)
       IN  /\ embeddingCache' = r.cache
           /\ life' = [life EXCEPT
                          !.pc = IF r.raised THEN "failed" ELSE "running",
                          !.raised = r.raised,
                          !.read = IF ~ok THEN "failed"
                                   ELSE IF HasCache(data) THEN "cache"
                                   ELSE "absent"]
    /\ UNCHANGED <<settings, genAI, data, envVars, rb, q, chunkVars, obsVars,
                   pureVars, chat>>

Reload ==
    \/ Unload
    \/ Onload
    \/ \E ok \in BOOLEAN : OnloadSettings(ok)
    \/ \E ok \in BOOLEAN : OnloadCache(ok)

\* A running plugin with a cache in memory, whatever its data file holds,
\* unloaded and loaded again.
PersistInit ==
    /\ ChunkIdle
    /\ PureIdle
    /\ chat = ChatIdle
    /\ CallsIdle
    /\ settings = KeySet
    /\ genAI = TRUE
    /\ embeddingCache \in StampedCaches
    /\ data \in Payloads
    /\ vault = [f \in FileSet |-> Unreadable]
    /\ genPlan = <<"ok", "ok", "ok">>

PersistNext == Reload

PersistSpec == PersistInit /\ [][PersistNext]_vars

-----------------------------------------------------------------------------
\* ---- the claims ----

\* C1: chunkText terminates for every text and every valid configuration
\* (chunkSize > 0, 0 <= overlap < chunkSize): its loop never comes back to a
\* window start it has already processed.
C1_ChunkTextTerminates == ~ChunkCycles

\* C2: a configuration with chunkOverlap >= chunkSize is rejected before any
\* processing: no chunkText call of a rebuild gets such a pair.
C2_InvalidOverlapRejected ==
    lastChunkCall.called => lastChunkCall.overlap < lastChunkCall.chunkSize

\* C3: a query that scans the cache while a rebuild runs sees the cache as it
\* was before the rebuild or as it is after it, never a mix.  Stated where the
\* rebuild has just ended (its loop and its save are done).
C3_NoPartialCacheObserved ==
    (rb.pc = "saved" /\ scanLog.taken)
        => scanLog.cache \in {rbBefore.cache, embeddingCache}

QueryEnded == q.pc \in {"done", "failed"}

\* C4: when generation fails as unavailable on attempts 1 and 2 and succeeds on
\* attempt 3, the query returns the attempt-3 text and the model is switched
\* exactly once, before attempt 2.
C4_FallbackPolicy ==
    (QueryEnded /\ Len(q.genLog) >= 1 /\ genPlan = <<"unavailable", "unavailable", "ok">>)
        => /\ q.pc = "done"
           /\ q.result = GenText(3)
           /\ Len(q.genLog) = 3
           /\ q.genLog[2].model # q.genLog[1].model
           /\ q.genLog[3].model = q.genLog[2].model

\* C5: a query makes at most 3 generation calls; when every call fails as
\* unavailable it makes exactly 3 and then fails as unavailable.
C5_RetryBudget ==
    (QueryEnded /\ Len(q.genLog) >= 1)
        => /\ Len(q.genLog) <= 3
           /\ genPlan = <<"unavailable", "unavailable", "unavailable">>
                  => (Len(q.genLog) = 3 /\ q.pc = "failed" /\ q.error = "unavailable")

\* C6: when the first generation call of a query fails with an auth or a
\* rate-limit signal, the query fails with that error after exactly one call.
C6_FailFast ==
    (QueryEnded /\ Len(q.genLog) >= 1 /\ genPlan[1] \in {"auth", "rateLimited"})
        => (q.pc = "failed" /\ q.error = genPlan[1] /\ Len(q.genLog) = 1)

\* C6's case: a query that failed on an auth signal of its first call.
C6_Witness == q.pc = "failed" /\ q.error = "auth" /\ Len(q.genLog) = 1

\* C7: when the search of a query returns no chunk, the query returns the fixed
\* "no relevant content" text and makes no generation call.
C7_EmptyResultShortCircuit ==
    (q.embedded # "none" /\ Len(q.relevantChunks) = 0)
        => (q.pc = "done" /\ q.result = NoRelevantText /\ q.genLog = <<>>)

\* C7's case: a search of a cache with chunks, none of which reaches the
\* threshold.
C7_Witness ==
    /\ q.pc = "done"
    /\ q.embedded = "ok"
    /\ Len(q.relevantChunks) = 0
    /\ AllChunks(embeddingCache) # <<>>

\* C8: when the embedding call for the query fails, the query ends as failed,
\* not with a normal text result.
C8_EmbeddingFailureSurfaces ==
    (QueryEnded /\ q.embedded = "failed")
        => (q.pc = "failed" /\ q.result # NoRelevantText)

\* s is t with some elements left out
RECURSIVE IsSubSeq(_, _)
IsSubSeq(s, t) ==
    IF s = <<>> THEN TRUE
    ELSE IF t = <<>> THEN FALSE
    ELSE IF Head(s) = Head(t) THEN IsSubSeq(Tail(s), Tail(t))
    ELSE IsSubSeq(s, Tail(t))

Contents(chunks) == [i \in 1..Len(chunks) |-> chunks[i].content]

\* The step in which the rebuild ingests the readable file f.
Ingests(f) ==
    /\ rb.pc = "running"
    /\ rb.i < Len(rb.files)
    /\ rb.files[rb.i + 1] = f
    /\ vault[f] # Unreadable
    /\ rb'.pc = "running"
    /\ rb'.i = rb.i + 1

\* C9: re-ingesting a source replaces its record: after the ingestion of f the
\* record under f holds only chunks of the text just read, in document order
\* (none of an earlier ingestion), and every other record is unchanged.
C9_ReplaceNotMerge ==
    [][\A f \in FileSet :
          Ingests(f) =>
              /\ MapKeys(embeddingCache') = MapKeys(embeddingCache) \cup {f}
              /\ IsSubSeq(Contents(MapGet(embeddingCache', f).chunks),
                          Chunked(vault[f], settings.chunkSize,
                                  settings.chunkOverlap).eligible)
              /\ \A g \in MapKeys(embeddingCache) \ {f} :
                    MapGet(embeddingCache', g) = MapGet(embeddingCache, g)]_vars

\* C9's case: the running rebuild has re-ingested the first file, whose record
\* had two chunks before and has one now.
C9_Witness ==
    /\ rb.pc = "running"
    /\ rb.i >= 1
    /\ MapHas(rbBefore.cache, Files[1])
    /\ MapHas(embeddingCache, Files[1])
    /\ Len(MapGet(rbBefore.cache, Files[1]).chunks) = 2
    /\ Len(MapGet(embeddingCache, Files[1]).chunks) = 1

\* C10: a source whose ingestion fails never aborts the batch: the rebuild goes
\* on to the sources after it and to the save.  Stated for the rebuilds whose
\* configuration is valid (overlap < chunkSize).
C10_FailingSourceNeverAbortsBatch ==
    (lastChunkCall.called /\ lastChunkCall.overlap < lastChunkCall.chunkSize)
        => ~Hung

\* The step in which the rebuild passes the file f, which cannot be read.
FailsToRead(f) ==
    /\ rb.pc = "running"
    /\ rb.i < Len(rb.files)
    /\ rb.files[rb.i + 1] = f
    /\ vault[f] = Unreadable
    /\ rb'.i = rb.i + 1

\* C11: when reading a source fails, its ingestion writes nothing to the cache:
\* the entry under its key (absent, or the record of an earlier ingestion) and
\* every other entry are what they were.
C11_FailedReadLeavesCache ==
    [][\A f \in FileSet : FailsToRead(f) => embeddingCache' = embeddingCache]_vars

\* C11's case: the running rebuild has passed the first file, which cannot be
\* read, and the cache still has the record of an earlier ingestion of it.
C11_Witness ==
    /\ rb.pc = "running"
    /\ rb.i >= 1
    /\ vault[Files[1]] = Unreadable
    /\ MapHas(embeddingCache, Files[1])
    /\ MapGet(embeddingCache, Files[1]).chunks # <<>>

\* C12: the count a rebuild reports as processed excludes the sources whose
\* ingestion failed: at the end of the loop processedFiles is the number of
\* files that were read.
C12_ProcessedCountExcludesFailed ==
    rb.pc = "saved"
        => rb.processedFiles = Cardinality({f \in FileSet : vault[f] # Unreadable})

\* ---- the search on its own ----

\* The cached chunks in cache iteration order, and the similarity of the i-th.
SrAll == AllChunks(sr.cache)
SrSim(i) == CosineSimilarity(sr.queryEmbedding.values, SrAll[i].embedding)

\* The similarity x, a number, is strictly below the threshold t >= 0 (hundredths).
SimBelow(x, t) == x.dot < 0 \/ 10000 * x.dot * x.dot < t * t * x.mag2

SimEq(x, y) == ~SimGreater(x, y) /\ ~SimGreater(y, x)

\* The positions of the chunks that have a vector and a similarity that is a
\* number not below the threshold.
SrQual ==
    IF sr.queryEmbedding.isNull THEN {}
    ELSE {i \in 1..Len(SrAll) :
             /\ HasEmbedding(SrAll[i])
             /\ ~SrSim(i).nan
             /\ ~SimBelow(SrSim(i), sr.settings.similarityThreshold)}

\* C13: every chunk searchSimilarChunks returns carries its similarity to the
\* query, which is a number and is not below settings.similarityThreshold.
C13_ThresholdExclusion ==
    sr.pc = "done" =>
        \A k \in 1..Len(sr.result) :
            LET x == sr.result[k].similarity
            IN  /\ x = CosineSimilarity(sr.queryEmbedding.values, sr.result[k].embedding)
                /\ ~x.nan
                /\ ~SimBelow(x, sr.settings.similarityThreshold)

\* C13's case: a search that returned a chunk and left out one chunk whose
\* similarity is not a number and one whose similarity is below the threshold.
C13_Witness ==
    /\ sr.pc = "done"
    /\ Len(sr.result) >= 1
    /\ \E i \in 1..Len(SrAll) : HasEmbedding(SrAll[i]) /\ SrSim(i).nan
    /\ \E j \in 1..Len(SrAll) :
          /\ HasEmbedding(SrAll[j])
          /\ ~SrSim(j).nan
          /\ SimBelow(SrSim(j), sr.settings.similarityThreshold)

\* C14: searchSimilarChunks returns at most settings.maxResults chunks.
C14_AtMostMaxResults == sr.pc = "done" => Len(sr.result) <= sr.settings.maxResults

\* C14's case: more chunks qualify than maxResults, and maxResults are returned.
C14_Witness ==
    /\ sr.pc = "done"
    /\ Cardinality(SrQual) > sr.settings.maxResults
    /\ Len(sr.result) = sr.settings.maxResults

\* The place of the qualifying chunk i in the reference ranking: the number of
\* qualifying chunks with a higher similarity, or an equal one and an earlier
\* place in the cache.
SrRank(i) ==
    Cardinality({j \in SrQual :
                    \/ SimGreater(SrSim(j), SrSim(i))
                    \/ SimEq(SrSim(j), SrSim(i)) /\ j < i})

\* C15: searchSimilarChunks returns the first maxResults chunks of the reference
\* ranking: the qualifying chunks by similarity descending, chunks of equal
\* similarity in cache iteration order.
C15_ReferenceRanking ==
    sr.pc = "done" =>
        /\ Len(sr.result) = Min(sr.settings.maxResults, Cardinality(SrQual))
        /\ \A i \in SrQual :
              SrRank(i) < Len(sr.result) =>
                  LET r == sr.result[SrRank(i) + 1]
                  IN  /\ r.content = SrAll[i].content
                      /\ r.filePath = SrAll[i].filePath
                      /\ r.similarity = SrSim(i)

\* C15's case: the three chunks qualify, the two of a.md with equal similarity
\* and the one of b.md with a higher one, and two results are asked for.
C15_Witness ==
    /\ sr.pc = "done"
    /\ Cardinality(SrQual) = 3
    /\ SimEq(SrSim(1), SrSim(2))
    /\ SimGreater(SrSim(3), SrSim(1))
    /\ Len(sr.result) = 2
    /\ sr.result[1].content = SrAll[3].content
    /\ sr.result[2].content = SrAll[1].content

ZeroMagnitude(v) == Len(v) > 0 /\ \A i \in 1..Len(v) : v[i] = 0

\* The chunks (with a vector as long as the query's) whose similarity involves a
\* vector of zero magnitude.
SrZeroMagnitude ==
    {i \in 1..Len(SrAll) :
        /\ HasEmbedding(SrAll[i])
        /\ Len(SrAll[i].embedding) = Len(sr.queryEmbedding.values)
        /\ ZeroMagnitude(sr.queryEmbedding.values) \/ ZeroMagnitude(SrAll[i].embedding)}

\* C16: when the query vector or a chunk's vector has zero magnitude the chunk's
\* similarity counts as 0: with threshold 0 and result slots left the chunk is
\* returned with similarity 0, with a threshold above 0 it is not returned.
C16_ZeroMagnitudeIsZero ==
    (sr.pc = "done" /\ ~sr.queryEmbedding.isNull) =>
        \A i \in SrZeroMagnitude :
            LET returned == {k \in 1..Len(sr.result) :
                                /\ sr.result[k].content = SrAll[i].content
                                /\ sr.result[k].filePath = SrAll[i].filePath}
            IN  IF sr.settings.similarityThreshold = 0
                THEN Len(sr.result) < sr.settings.maxResults
                         => \E k \in returned : /\ ~sr.result[k].similarity.nan
                                                /\ sr.result[k].similarity.dot = 0
                ELSE returned = {}

\* ---- cosineSimilarity on its own ----

\* Two results of cosineSimilarity are the same value: both NaN, or the same
\* number.
SimSame(x, y) == x.nan = y.nan /\ (~x.nan => SimEq(x, y))

\* C17: cosineSimilarity(a, b) and cosineSimilarity(b, a) are the same value,
\* for vectors of different lengths too.
C17_CosineSymmetric == cos.pc = "done" => SimSame(cos.ab, cos.ba)

\* ---- the chunker on its own ----

\* The positions of the text inside the source range of a chunk pushed so far.
CkCovered == UNION {WindowRange(ckText, ckSize, ckOverlap, s) : s \in ckSeen}

\* C18: for a valid configuration the chunks chunkText emits cover the text:
\* once the call has no new window to emit (it has returned, or it is back at a
\* window it has emitted), every position of the text that is not whitespace
\* lies in the source range of an emitted chunk.
C18_ChunkCoverage ==
    (ckPc = "done" \/ ChunkCycles) =>
        \A i \in 0..(Len(ckText) - 1) : ~IsSpace(ckText[i + 1]) => i \in CkCovered

\* C19: every string chunkText returns is non-empty, has no whitespace at either
\* end and is at most chunkSize long.
C19_ChunkShape ==
    ckPc = "done" =>
        \A k \in 1..Len(ckChunks) :
            LET c == ckChunks[k]
            IN  /\ Len(c) > 0
                /\ ~IsSpace(c[1])
                /\ ~IsSpace(c[Len(c)])
                /\ Len(c) <= ckSize

\* C19's case: a call that returned a chunk of chunkSize characters and a chunk
\* that lost whitespace to trim, and dropped a chunk that was all whitespace.
C19_Witness ==
    /\ ckPc = "done"
    /\ ckSize >= 2
    /\ \E k \in 1..Len(ckChunks) : Len(ckChunks[k]) = ckSize
    /\ \E s \in ckSeen :
          LET w == Window(ckText, ckSize, ckOverlap, s)
          IN  /\ w.chunk # <<>>
              /\ Len(w.chunk) < Cardinality(WindowRange(ckText, ckSize, ckOverlap, s))
    /\ Len(ckChunks) < Cardinality(ckSeen)

\* ---- the chat view ----

\* No chunk of the sequence carries a similarity score.
NoScores(chunks) == \A k \in 1..Len(chunks) : "similarity" \notin DOMAIN chunks[k]

\* C20: retrieval results are never persisted: no chunk in the plugin's
\* persisted data (the saved cache, the sources of the saved chat messages)
\* carries a similarity score.
C20_ResultsNeverPersisted ==
    /\ data.kind = "cache" => NoScores(AllChunks(ObjectEntries(data.value)))
    /\ "chatHistory" \in DOMAIN data =>
           \A i \in 1..Len(data.chatHistory) :
               "sources" \in DOMAIN data.chatHistory[i]
                   => NoScores(data.chatHistory[i].sources)

\* ---- queries ----

\* C21: searchSimilarChunks only reads the cache: no step of a query changes
\* the cache (keys, records, chunks), and no chunk in the cache has a
\* similarity, whatever number of searches has run.
C21_SearchReadOnly ==
    [][embeddingCache' = embeddingCache /\ NoScores(AllChunks(embeddingCache'))]_vars

\* C21's case: a search of the cache has returned chunks, each with its
\* similarity, and no chunk of the cache has one.
C21_Witness ==
    /\ q.embedded = "ok"
    /\ Len(q.relevantChunks) >= 1
    /\ "similarity" \in DOMAIN q.relevantChunks[1]
    /\ NoScores(AllChunks(embeddingCache))

\* ---- the saved cache ----

\* C22: when loadEmbeddingsFromCache finds no saved data, or its read fails,
\* or the data read has no cache in it, nothing is raised to onload and the
\* in-memory cache is empty afterwards.
C22_LoadWithoutCacheIsEmpty ==
    life.read \in {"failed", "absent"}
        => /\ ~life.raised
           /\ life.pc = "running"
           /\ embeddingCache = <<>>

\* C22's case: a cache was saved, and the read of loadEmbeddingsFromCache
\* failed.
C22_Witness ==
    /\ life.read = "failed"
    /\ data.kind = "cache"
    /\ Len(data.value.keys) > 0
    /\ embeddingCache = <<>>

\* The same keys, the same chunks in the same order, the same lastUpdated.
SameCache(a, b) ==
    /\ MapKeys(a) = MapKeys(b)
    /\ \A k \in MapKeys(a) :
          /\ MapGet(a, k).chunks = MapGet(b, k).chunks
          /\ MapGet(a, k).lastUpdated = MapGet(b, k).lastUpdated

\* C23: after a save that landed and a load that read it, the in-memory cache
\* has the keys, the chunk lists and the lastUpdated of the cache that was saved.
C23_SaveLoadRoundTrip ==
    (life.pc = "running" /\ life.saved.taken /\ life.read = "cache")
        => SameCache(embeddingCache, life.saved.cache)

\* C23's case: a cache of two sources with chunks and different lastUpdated
\* was saved at unload and read back at the next load.
C23_Witness ==
    /\ life.pc = "running"
    /\ life.saved.taken
    /\ life.read = "cache"
    /\ Len(embeddingCache) = 2
    /\ Len(embeddingCache[1].value.chunks) > 0
    /\ embeddingCache[1].value.lastUpdated # embeddingCache[2].value.lastUpdated

\* ---- the rebuild's save and the chunks it ingests ----

\* C24: one rebuild persists the cache exactly once, after the ingestion of
\* its last source: never twice, never between two sources, and no rebuild is
\* left without its save.
C24_SavedExactlyOnce ==
    /\ rb.saves <= 1
    /\ rb.saves = 1 => (rb.pc = "saved" /\ rb.i = Len(rb.files))
    /\ rb.pc = "saved" => rb.saves = 1
    /\ ~Hung

\* ---- the windows of chunkText ----

\* The window at `start` is not the last one: it ends before the text does.
NonFinal(text, chunkSize, start) == start + chunkSize < Len(text)

\* The text positions (0-based) of the '.' and newlines inside the window.
BreakPositions(text, chunkSize, start) ==
    {p \in start..(start + chunkSize - 1) : text[p + 1] \in {".", NL}}

\* What the rule of C25 gives for the non-final window at `start`: with p the
\* text position of the last '.' or newline in the window, the chunk
\* text[start..p] and the next start p + 1 - overlap when
\* p > start + 0.7 * chunkSize, the whole window and end - overlap otherwise.
\* The chunk is compared as pushed, that is trimmed.
BreakRule(text, chunkSize, overlap, start) ==
    LET ps  == BreakPositions(text, chunkSize, start)
        p   == SetMax(ps)
        end == start + chunkSize
    IN  IF ps # {} /\ 10 * p > 10 * start + 7 * chunkSize
        THEN [chunk |-> Trim(Slice(text, start, p + 1)), next |-> p + 1 - overlap]
        ELSE [chunk |-> Trim(Slice(text, start, end)), next |-> end - overlap]

\* C25: at every window start a call reaches, the iteration on a non-final
\* window pushes the chunk and moves to the next start that the break rule
\* gives, the break point being a text position.
C25_BreakRule ==
    (ckPc = "loop" /\ ckStart >= 0 /\ NonFinal(ckText, ckSize, ckStart))
        => Window(ckText, ckSize, ckOverlap, ckStart)
               = BreakRule(ckText, ckSize, ckOverlap, ckStart)

\* The text positions of the window at `start`.
WindowSpan(text, chunkSize, start) ==
    {i \in start..(Min(start + chunkSize, Len(text)) - 1) : TRUE}

\* The iteration at `start` is on a non-final window and takes the fallback:
\* no break point past 70 % of the window.
OnFallbackPath(text, chunkSize, start) ==
    LET end   == Min(start + chunkSize, Len(text))
        chunk == Slice(text, start, end)
        breakPoint == Max(LastIndexOf(chunk, "."), LastIndexOf(chunk, NL))
    IN  end < Len(text) /\ ~PastSeventyPercent(breakPoint, start, chunkSize)

\* C26: an iteration that takes the fallback on a non-final window leaves the
\* next window start exactly `overlap` characters before the end of its
\* window, and the two windows share exactly the last `overlap` characters
\* of the first.
C26_FallbackOverlap ==
    [][(ckSeen' # ckSeen /\ OnFallbackPath(ckText, ckSize, ckStart))
          => /\ ckStart' = ckStart + ckSize - ckOverlap
             /\ WindowSpan(ckText, ckSize, ckStart) \cap WindowSpan(ckText, ckSize, ckStart')
                    = {i \in (ckStart + ckSize - ckOverlap)..(ckStart + ckSize - 1) : TRUE}]_vars

\* C26's case: the window at a start s > 0 took the fallback with an overlap
\* of at least two characters, and the loop stands at the next window.
C26_Witness ==
    /\ ckPc = "loop"
    /\ ckOverlap >= 2
    /\ \E s \in ckSeen :
          /\ s > 0
          /\ OnFallbackPath(ckText, ckSize, s)
          /\ ckStart = s + ckSize - ckOverlap
          /\ ckStart < Len(ckText)

\* The chunks getEmbedding is called on in the ingestion of a file whose
\* content is `id`: the eligible ones, in order.
EmbedCalls(id, s) == Chunked(id, s.chunkSize, s.chunkOverlap).eligible

\* The contents and slider positions under which getEmbedding is called on a
\* chunk whose trimmed length is under 50.
ShortEmbedCalls ==
    {e \in ChunkedTable : \E i \in 1..Len(e[4].eligible) : Len(Trim(e[4].eligible[i])) < 50}

\* C27: chunks shorter than 50 characters are dropped before embedding: in the
\* ingestion of a source getEmbedding is called on no chunk whose trimmed
\* length is under 50, and every chunk in the cache has a content of at least
\* 50 characters.
C27_ShortChunksDropped ==
    [][/\ \A f \in FileSet :
             Ingests(f) =>
                 \A e \in ShortEmbedCalls :
                     <<e[1], e[2], e[3]>>
                         # <<vault[f], settings.chunkSize, settings.chunkOverlap>>
       /\ \A r \in 1..Len(embeddingCache') :
             \A k \in 1..Len(embeddingCache'[r].value.chunks) :
                 Len(embeddingCache'[r].value.chunks[k].content) >= 50]_vars

\* C27's case: a source one of whose chunks is two characters long (the
\* second window of "two" under the default sliders) has been ingested with
\* every embedding call answered, and its record has the two long chunks.
C27_Witness ==
    /\ rb.pc = "running"
    /\ rb.i = 1
    /\ vault[Files[1]] = "two"
    /\ lastChunkCall.called
    /\ Len(Chunked("two", lastChunkCall.chunkSize, lastChunkCall.overlap).chunks)
           > Len(Chunked("two", lastChunkCall.chunkSize, lastChunkCall.overlap).eligible)
    /\ Len(MapGet(embeddingCache, Files[1]).chunks)
           = Len(Chunked("two", lastChunkCall.chunkSize, lastChunkCall.overlap).eligible)
    /\ Len(MapGet(embeddingCache, Files[1]).chunks) > 0

\* The k-th smallest member of a set of numbers.
RECURSIVE KthOf(_, _)
KthOf(S, k) == IF k = 1 THEN SetMin(S) ELSE KthOf(S \ {SetMin(S)}, k - 1)

\* C28: when getEmbedding fails for some chunks of a readable source, the
\* ingestion completes and writes a record whose chunks are exactly the
\* eligible chunks whose embedding succeeded, in document order; when every
\* embedding fails, the record has no chunks.
C28_PartialEmbeddingFailure ==
    [][\A f \in FileSet :
          Ingests(f) =>
              LET calls  == EmbedCalls(vault[f], settings)
                  ok     == lastChunkCall'.succeeded
                  record == MapGet(embeddingCache', f).chunks
              IN  /\ MapHas(embeddingCache', f)
                  /\ Len(record) = Cardinality(ok)
                  /\ \A k \in 1..Len(record) :
                        /\ record[k].content = calls[KthOf(ok, k)]
                        /\ record[k].filePath = f
                        /\ "embedding" \in DOMAIN record[k]]_vars

\* C28's case: of the two eligible chunks of the source just ingested the
\* embedding of the first failed, and the record holds the second alone.
C28_Witness ==
    /\ rb.pc = "running"
    /\ rb.i = 1
    /\ vault[Files[1]] # Unreadable
    /\ lastChunkCall.called
    /\ lastChunkCall.succeeded = {2}
    /\ Len(MapGet(embeddingCache, Files[1]).chunks) = 1

\* ---- the course of a query ----

\* The steps a query may take: Idle, Embedding, (Searching,) Generating, and
\* Done or Failed, never backwards.  The scan of the cache is synchronous, so
\* Searching has no state of its own between two steps.
QueryOrder ==
    {<<"idle", "embedding">>, <<"idle", "failed">>,
     <<"embedding", "generating">>, <<"embedding", "done">>, <<"embedding", "failed">>,
     <<"generating", "done">>, <<"generating", "failed">>,
     <<"done", "idle">>, <<"failed", "idle">>}

\* C29: a query goes through Idle, Embedding, Searching, Generating and Done
\* or Failed in this order; its search has chunks only when its embedding
\* succeeded, it is generating only after a search that returned chunks, and,
\* every remote call returning or failing, a query that has started ends Done
\* or Failed.
C29_QueryCourse ==
    /\ [][q'.pc # q.pc => <<q.pc, q'.pc>> \in QueryOrder]_vars
    /\ [](Len(q.relevantChunks) > 0 => q.embedded = "ok")
    /\ [](q.pc = "generating" => Len(q.relevantChunks) > 0)
    /\ (q.pc \in {"embedding", "generating"}) ~> QueryEnded

\* C30: the context of the prompt of a query holds exactly the chunks its
\* search returned, each once and in ranked order (no chunk before one of
\* higher similarity), each after the label with its fileName, a delimiter
\* between two chunks and nowhere else; the prompt holds the query text.
C30_PromptContext ==
    q.pc = "generating" =>
        LET ctx == q.prompt.context
            rc  == q.relevantChunks
            n   == Len(rc)
        IN  /\ Len(ctx) = 3 * n - 1
            /\ \A i \in 1..n :
                  /\ ctx[3 * i - 2] = [label |-> rc[i].fileName]
                  /\ ctx[3 * i - 1] = [text |-> rc[i].content]
                  /\ i < n => ctx[3 * i] = Delimiter
            /\ \A i, j \in 1..n :
                  i < j => ~SimGreater(rc[j].similarity, rc[i].similarity)
            /\ q.prompt.question = q.query

\* C30's case: the search returned two chunks of different files, and the
\* prompt is with the generation capability.
C30_Witness ==
    /\ q.pc = "generating"
    /\ Len(q.relevantChunks) >= 2
    /\ q.relevantChunks[1].fileName # q.relevantChunks[2].fileName
    /\ Len(q.prompt.context) >= 5

\* ---- the sections of the data file ----

\* The settings loadSettings gives for a data file, and the chat history
\* loadChatHistory finds in it.
PersistedSettings(payload) ==
    [k \in DOMAIN DEFAULT_SETTINGS |-> LoadSettings(payload)[k]]
PersistedChat(payload) ==
    IF "chatHistory" \in DOMAIN Flat(payload) THEN <<Flat(payload).chatHistory>> ELSE <<>>

\* C31: once the cache is saved, no saveSettings and no saveChatHistory
\* changes the saved cache: reading the data file, loadEmbeddingsFromCache
\* restores the cache that was saved (here the cache in memory, which no
\* rebuild changes).
C31_SavedCacheDurable ==
    LoadEmbeddingsFromCache(TRUE, data, <<>>).cache = embeddingCache

\* C32: saveEmbeddingsToCache changes only the cache in the data file: the
\* save at the end of a rebuild leaves the saved settings and the saved chat
\* history as they were, so loadSettings gives the same settings after it as
\* before.
C32_CacheSaveKeepsOtherSections ==
    [][(rb.pc = "running" /\ rb'.pc = "saved")
          => /\ PersistedSettings(data') = PersistedSettings(data)
             /\ PersistedChat(data') = PersistedChat(data)]_vars

\* ---- the chat view's sources, history and busy flag ----

\* C33: the sources attached to an assistant message are exactly the chunks
\* the prompt context of its answer was built from: once the query of a send
\* has searched, its chunks are the chunks of the view's own search.
C33_SourcesAreContextChunks ==
    (chat.pc = "querying" /\ q.embedded # "none")
        => Contents(chat.relevantChunks) = Contents(q.relevantChunks)

\* C34: chatHistory alternates user, assistant, user, ... from a user message
\* on: every assistant message comes right after the user message it answers.
C34_HistoryAlternates ==
    \A i \in 1..Len(chat.chatHistory) :
        chat.chatHistory[i].role = IF i % 2 = 1 THEN "user" ELSE "assistant"

\* A step in which sendMessage passes its guard and pushes the user message.
SendStarts ==
    /\ Len(chat'.chatHistory) > Len(chat.chatHistory)
    /\ chat'.chatHistory[Len(chat.chatHistory) + 1].role = "user"

C36_ClientIffKey ==
    genAI <=> settings.apiKey # ""

\* ---- what a rebuild leaves in the cache ----

\* C37: a rebuild adds and replaces records and deletes none: every key the
\* cache had when the rebuild started is still there, and the record of a
\* file the host lists no more is as it was.
C37_RebuildNeverDeletes ==
    rbBefore.taken =>
        \A k \in MapKeys(rbBefore.cache) :
            /\ MapHas(embeddingCache, k)
            /\ vault[k] = Deleted => MapGet(embeddingCache, k) = MapGet(rbBefore.cache, k)

\* C37's case: a rebuild has run to its save over a vault one of whose files
\* was deleted, and the record of that file, with its chunks, is in the cache.
C37_Witness ==
    /\ rb.pc = "saved"
    /\ \E k \in FileSet :
          /\ vault[k] = Deleted
          /\ MapHas(embeddingCache, k)
          /\ Len(MapGet(embeddingCache, k).chunks) > 0

\* C38: in every state ingestion reaches from an empty cache, each chunk
\* stored under the key k has filePath k and has its embedding: no chunk
\* without a vector is stored.
C38_RecordConsistency ==
    \A r \in 1..Len(embeddingCache) :
        \A k \in 1..Len(embeddingCache[r].value.chunks) :
            /\ embeddingCache[r].value.chunks[k].filePath = embeddingCache[r].key
            /\ HasEmbedding(embeddingCache[r].value.chunks[k])

\* C38's case: a rebuild has ingested both files and is at its save, and each
\* record has chunks.
C38_Witness ==
    /\ Len(embeddingCache) = 2
    /\ Len(embeddingCache[1].value.chunks) = 1
    /\ Len(embeddingCache[2].value.chunks) > 0
    /\ rb.pc = "saved"
    /\ vault[embeddingCache[1].key] = "two"

====
